---- MODULE Spec2Model ----
(***************************************************************************)
(* Model of the FileJump backend adapter (backend/filejump/filejump.go and *)
(* backend/filejump/api/types.go).  One Fs with its directory cache, one   *)
(* Object handle, and the HTTP exchanges of each operation: every network  *)
(* attempt is one step whose response is chosen by the environment.        *)
(***************************************************************************)
EXTENDS Integers, Sequences, FiniteSets, TLC

VARIABLES
    dirCache,    \* Fs.dirCache: path -> identifier (paths are sequences of names)
    o,           \* the Object handle operations act on
    op,          \* the operation in progress (or the last one)
    pc,          \* "idle", or the request kind the operation is waiting on
    req,         \* the request of the pending pacer call
    try,         \* attempt number inside the pending pacer call
    cancelled,   \* ctx.Err() != nil
    res,         \* dircache.FindDir in progress
    lst,         \* listAll in progress
    ret,         \* result of the last finished operation
    nreq,        \* requests sent by the operation in progress (or the last one)
    lastOut,     \* last (resp, err) classified by shouldRetry, with its verdict
    item,        \* api.Item whose ModTime is decoded
    mt,          \* result of Item.ModTime
    gor          \* the Fs.List or Fs.Rmdir call of each of two goroutines sharing the Fs

vars == <<dirCache, o, op, pc, req, try, cancelled, res, lst, ret, nreq, lastOut, item, mt, gor>>

----------------------------------------------------------------------------
(* Bounds *)

MaxTries == 2      \* attempts the pacer makes for one call
MaxPages == 2      \* listing pages the server serves for one listAll
MaxEntries == 3    \* entries the server holds in one folder

----------------------------------------------------------------------------
(* api/types.go *)

ItemTypeFolder == "folder"
ItemTypes == { "folder", "image", "text", "audio", "video", "pdf" }

\* strconv.Itoa on the identifiers that occur
Itoa(n) == ToString(n)

\* strconv.Atoi with the error dropped: "" and any non-number give 0
Atoi(s) == IF \E n \in 0..9 : ToString(n) = s
           THEN CHOOSE n \in 0..9 : ToString(n) = s
           ELSE 0

GetID(i) == IF i.ID = 0 THEN "" ELSE Itoa(i.ID)

\* time.Time values: an instant and a location
ZeroTime == [unix |-> 0, loc |-> "UTC"]
Local(unix) == [unix |-> unix, loc |-> "Local"]

\* The layouts Item.ModTime tries, in its order
formats == << "2006-01-02T15:04:05.000000Z",
              "2006-01-02T15:04:05Z07:00",
              "2006-01-02T15:04:05.999999999Z07:00",
              "2006-01-02T15:04:05Z",
              "2006-01-02 15:04:05",
              "2006-01-02T15:04:05.000Z",
              "2006-01-02T15:04:05" >>

\* Timestamp strings a server may send, with the instant each denotes
TimeStrings == { "",
                 "2023-01-15T10:30:00.000000Z",
                 "2023-01-16T10:30:00Z",
                 "2023-01-17T10:30:00+02:00",
                 "2023-01-18 10:30:00",
                 "2023-01-19T10:30:00.123Z",
                 "2023-01-20T10:30:00",
                 "2023-01-21T10:30:00.5",
                 "15/01/2023",
                 "yesterday" }

Instant(s) == CASE s = "2023-01-15T10:30:00.000000Z" -> 15
                [] s = "2023-01-16T10:30:00Z"          -> 16
                [] s = "2023-01-17T10:30:00+02:00"     -> 17
                [] s = "2023-01-18 10:30:00"           -> 18
                [] s = "2023-01-19T10:30:00.123Z"      -> 19
                [] s = "2023-01-20T10:30:00"           -> 20
                [] s = "2023-01-21T10:30:00.5"         -> 21
                [] OTHER                               -> 0

\* time.Parse(layout, s) succeeds: a layout without fractional seconds accepts
\* a fraction after the seconds, ".000000"/".000" need exactly that many
\* digits, "Z07:00" accepts "Z" or a numeric offset, a bare "Z" is a literal.
Accepts(layout, s) ==
    CASE layout = "2006-01-02T15:04:05.000000Z" ->
             s \in {"2023-01-15T10:30:00.000000Z"}
      [] layout = "2006-01-02T15:04:05Z07:00" ->
             s \in {"2023-01-15T10:30:00.000000Z", "2023-01-16T10:30:00Z",
                    "2023-01-17T10:30:00+02:00", "2023-01-19T10:30:00.123Z"}
      [] layout = "2006-01-02T15:04:05.999999999Z07:00" ->
             s \in {"2023-01-15T10:30:00.000000Z", "2023-01-16T10:30:00Z",
                    "2023-01-17T10:30:00+02:00", "2023-01-19T10:30:00.123Z"}
      [] layout = "2006-01-02T15:04:05Z" ->
             s \in {"2023-01-15T10:30:00.000000Z", "2023-01-16T10:30:00Z",
                    "2023-01-19T10:30:00.123Z"}
      [] layout = "2006-01-02 15:04:05" ->
             s \in {"2023-01-18 10:30:00"}
      [] layout = "2006-01-02T15:04:05.000Z" ->
             s \in {"2023-01-19T10:30:00.123Z"}
      [] layout = "2006-01-02T15:04:05" ->
             s \in {"2023-01-20T10:30:00", "2023-01-21T10:30:00.5"}
      [] OTHER -> FALSE

\* time.Parse: [ok, unix]
Parse(layout, s) == IF Accepts(layout, s)
                    THEN [ok |-> TRUE, unix |-> Instant(s)]
                    ELSE [ok |-> FALSE, unix |-> 0]

\* for _, format := range formats { if parsed, err := time.Parse(...); err == nil { return parsed.Local() } }
RECURSIVE TryFormats(_, _)
TryFormats(s, k) ==
    IF k > Len(formats) THEN [ok |-> FALSE, t |-> ZeroTime]
    ELSE IF Parse(formats[k], s).ok
         THEN [ok |-> TRUE, t |-> Local(Parse(formats[k], s).unix)]
         ELSE TryFormats(s, k + 1)

ModTime_CreatedFirst(i) ==
    LET c == IF i.CreatedAt # "" THEN TryFormats(i.CreatedAt, 1) ELSE [ok |-> FALSE, t |-> ZeroTime]
        u == IF i.UpdatedAt # "" THEN TryFormats(i.UpdatedAt, 1) ELSE [ok |-> FALSE, t |-> ZeroTime]
    IN  IF c.ok THEN c.t ELSE IF u.ok THEN u.t ELSE ZeroTime

\* Item.ModTime
ModTime(i) ==
    LET u == IF i.UpdatedAt # "" THEN TryFormats(i.UpdatedAt, 1) ELSE [ok |-> FALSE, t |-> ZeroTime]
        c == IF i.CreatedAt # "" THEN TryFormats(i.CreatedAt, 1) ELSE [ok |-> FALSE, t |-> ZeroTime]
    IN  IF u.ok THEN u.t ELSE IF c.ok THEN c.t ELSE ZeroTime

----------------------------------------------------------------------------
(* Retry policy *)

retryErrorCodes == {429, 500, 502, 503, 504, 509}

\* Values of the WWW-Authenticate header; the ones containing "expired_token"
Challenges == {"", "Bearer error=\"invalid_token\"", "Bearer error=\"expired_token\""}
ContainsExpiredToken(h) == h = "Bearer error=\"expired_token\""

\* fserrors.ContextError(ctx, &err): reports a cancelled context and puts the
\* context error into err when err was nil
ContextError(c, err) == [hit |-> c, err |-> IF c /\ err = "nil" THEN "context" ELSE err]

\* fserrors.ShouldRetryHTTP(resp, retryErrorCodes); status 0 stands for resp == nil
ShouldRetryHTTP(out) == out.status # 0 /\ out.status \in retryErrorCodes

shouldRetry_NoAuth(c, out) ==
    LET ce == ContextError(c, out.err) IN
    IF ce.hit THEN [retry |-> FALSE, err |-> ce.err]
    ELSE [retry |-> out.generic \/ ShouldRetryHTTP(out), err |-> out.err]

shouldRetry_NoCtx(c, out) ==
    LET authRetry == out.status = 401 /\ ContainsExpiredToken(out.challenge) IN
    [retry |-> authRetry \/ out.generic \/ ShouldRetryHTTP(out), err |-> out.err]

\* shouldRetry(ctx, resp, err); out.generic is fserrors.ShouldRetry(err)
shouldRetry(c, out) ==
    LET ce == ContextError(c, out.err) IN
    IF ce.hit THEN [retry |-> FALSE, err |-> ce.err]
    ELSE LET authRetry == out.status = 401 /\ ContainsExpiredToken(out.challenge)
         IN  [retry |-> authRetry \/ out.generic \/ ShouldRetryHTTP(out), err |-> out.err]

----------------------------------------------------------------------------
(* Values *)

NoPage == 0          \* var page *uint == nil
RootID == ""         \* NewFs: var rootID string

\* Entries the server may list.  Two folders share the name "a" with
\* different identifiers.
FolderA1 == [ID |-> 1, Name |-> "a", Type |-> "folder", FileSize |-> 0,
             UpdatedAt |-> "2023-01-16T10:30:00Z", CreatedAt |-> "2023-01-15T10:30:00.000000Z"]
FolderA2 == [ID |-> 2, Name |-> "a", Type |-> "folder", FileSize |-> 0,
             UpdatedAt |-> "", CreatedAt |-> "2023-01-18 10:30:00"]
FileF == [ID |-> 3, Name |-> "f", Type |-> "text", FileSize |-> 7,
          UpdatedAt |-> "yesterday", CreatedAt |-> "2023-01-20T10:30:00"]
\* An entry whose type tag is none of the ItemType constants
ItemX == [ID |-> 4, Name |-> "x", Type |-> "shortcut", FileSize |-> 1,
          UpdatedAt |-> "", CreatedAt |-> "2023-01-20T10:30:00"]
Items == { FolderA1, FolderA2, FileF, ItemX }

\* What the server holds: folders in the root folder (folderId empty), a file
\* and an entry of unknown type in the folder CreateDir made, a folder and a
\* file in every other folder
Children(dirID) ==
    CASE dirID = "" -> { FolderA1, FolderA2 }
      [] dirID = "5" -> { FileF, ItemX }
      [] OTHER -> { FolderA2, FileF }

\* Directory and file paths the host tool passes in
Dirs == { <<>>, <<"a">>, <<"a", "a">> }
ListDirs == { <<>>, <<"a">> }
Remotes == { <<"a", "a">>, <<"a", "f">> }
LookupRemotes == Remotes \cup { <<"a", "F">> }
Sizes == { -1, 7 }

\* Data of one listing page of a folder of which room entries are still to be
\* served, and the next_page values of a response
PageData(dirID, room) == UNION { [1..k -> Children(dirID)] : k \in 0..room }
NextPages == {2, 3}

\* (resp, err) pairs of one attempt.  status 0 is resp == nil; generic is
\* what fserrors.ShouldRetry answers for err.
OkOut == [status |-> 200, challenge |-> "", err |-> "nil", generic |-> FALSE]
Failures == { [status |-> 401, challenge |-> "Bearer error=\"expired_token\"", err |-> "http", generic |-> FALSE],
              [status |-> 404, challenge |-> "", err |-> "http", generic |-> FALSE] }

\* The full grid of (resp, err) pairs, for the retry policy on its own
Statuses == {0, 200, 302, 400, 401, 403, 404, 429, 500, 502, 503, 504, 509}
AllOutcomes ==
    { x \in [status : Statuses, challenge : Challenges,
             err : {"nil", "http", "net", "decode"}, generic : BOOLEAN] :
        /\ (x.status = 0) => (x.err = "net" /\ x.challenge = "")
        /\ (x.status \in 200..399) => x.err \in {"nil", "decode"}
        /\ (x.status >= 400) => x.err = "http"
        /\ (x.err = "nil") => ~x.generic }

NoOut == [out |-> OkOut, cancelled |-> FALSE, retry |-> FALSE, err |-> "nil", try |-> 0,
          prevStatus |-> 0, prevChallenge |-> ""]
\* auth: the request goes through f.srv, which carries the bearer token
NoReq == [kind |-> "none", id |-> "", num |-> 0, name |-> "", auth |-> FALSE]
NoRes == [target |-> <<>>, create |-> FALSE, active |-> FALSE]
NoLst == [fn |-> "none", leaf |-> "", dir |-> <<>>, directoriesOnly |-> FALSE,
          filesOnly |-> FALSE, npages |-> 0, count |-> 0, entries |-> <<>>, served |-> <<>>,
          seen |-> {}, lastNext |-> NoPage]
NoRet == [op |-> "none", err |-> "nil", entries |-> <<>>, id |-> "", found |-> FALSE,
          root |-> <<>>, size |-> 0, modTime |-> ZeroTime]
Goroutines == {1, 2}
NoCall == [pc |-> "idle", name |-> "none", path |-> <<>>, id |-> "", lst |-> NoLst,
           err |-> "nil", entries |-> <<>>]
NoOp == [name |-> "none", path |-> <<>>, size |-> 0, phase |-> ""]
NoItem == [UpdatedAt |-> "", CreatedAt |-> ""]
NoObject == [exists |-> FALSE, remote |-> <<>>, hasMetaData |-> FALSE, size |-> 0,
             modTime |-> ZeroTime, id |-> "", mimeType |-> ""]

\* &Object{fs: f, remote: remote}
NewObjectStruct(remote) == [NoObject EXCEPT !.exists = TRUE, !.remote = remote]

----------------------------------------------------------------------------
(* lib/dircache *)

\* path.Join(dir, name) and dircache.SplitPath on paths as sequences of names
Join(dir, name) == Append(dir, name)
SplitDir(p) == SubSeq(p, 1, Len(p) - 1)
SplitLeaf(p) == IF p = << >> THEN "" ELSE p[Len(p)]
IsPrefix(a, b) == Len(a) <= Len(b) /\ SubSeq(b, 1, Len(a)) = a

\* DirCache.Put
DcPut(dc, path, id) == [p \in (DOMAIN dc) \cup {path} |-> IF p = path THEN id ELSE dc[p]]

\* DirCache.FlushDir: drops dir and everything below it
FlushDir(dc, dir) == [p \in {q \in DOMAIN dc : ~IsPrefix(dir, q)} \cup {<<>>} |->
                        IF p = <<>> THEN RootID ELSE dc[p]]

\* The deepest ancestor of path the cache knows: where DirCache.FindDir stops
\* walking up (the root is always known)
CachedPrefix(dc, path) ==
    CHOOSE a \in {SubSeq(path, 1, k) : k \in 0..Len(path)} :
        /\ a \in DOMAIN dc
        /\ \A k \in (Len(a) + 1)..Len(path) : SubSeq(path, 1, k) \notin DOMAIN dc

\* strings.EqualFold on the names that occur
Fold(n) == CASE n = "A" -> "a" [] n = "F" -> "f" [] OTHER -> n
EqualFold(a, b) == Fold(a) = Fold(b)

\* f.opt.Enc.ToStandardName: a trailing space is stored encoded
ToStandardName(n) == IF n = "f " THEN "f_" ELSE n

----------------------------------------------------------------------------
(* Object.setMetaData and the callbacks handed to listAll *)

\* Object.setMetaData: [err, o]
setMetaData(ob, info) ==
    IF info.Type = ItemTypeFolder
    THEN [err |-> "ErrorIsDir", o |-> ob]
    ELSE [err |-> "nil",
          o |-> [ob EXCEPT !.hasMetaData = TRUE, !.size = info.FileSize,
                           !.modTime = ModTime(info), !.id = GetID(info)]]

\* What one listAll accumulates while it walks the pages
NoAcc(dc, entries) == [found |-> FALSE, dc |-> dc, entries |-> entries,
                       pathIDOut |-> "", info |-> CHOOSE i \in Items : TRUE,
                       iErr |-> "nil"]

ListFn_NoPut(l, info, acc) ==
    LET remote == Join(l.dir, info.Name) IN
    IF info.Type = ItemTypeFolder
    THEN [acc EXCEPT !.entries = Append(@, [isDir |-> TRUE, remote |-> remote, id |-> GetID(info),
                                            size |-> 0, modTime |-> ModTime(info)])]
    ELSE LET m == setMetaData(NewObjectStruct(remote), info) IN
         IF m.err # "nil"
         THEN [acc EXCEPT !.iErr = m.err, !.found = TRUE]
         ELSE [acc EXCEPT !.entries = Append(@, [isDir |-> FALSE, remote |-> remote, id |-> m.o.id,
                                                 size |-> m.o.size, modTime |-> m.o.modTime])]

\* The closure List passes to listAll
ListFn(l, info, acc) ==
    LET remote == Join(l.dir, info.Name) IN
    IF info.Type = ItemTypeFolder
    THEN [acc EXCEPT !.dc = DcPut(acc.dc, remote, GetID(info)),
                     !.entries = Append(@, [isDir |-> TRUE, remote |-> remote, id |-> GetID(info),
                                            size |-> 0, modTime |-> ModTime(info)])]
    ELSE LET m == setMetaData(NewObjectStruct(remote), info) IN
         IF m.err # "nil"
         THEN [acc EXCEPT !.iErr = m.err, !.found = TRUE]
         ELSE [acc EXCEPT !.entries = Append(@, [isDir |-> FALSE, remote |-> remote, id |-> m.o.id,
                                                 size |-> m.o.size, modTime |-> m.o.modTime])]

FindLeafFn_Never(l, info, acc) == acc

\* The closure FindLeaf passes to listAll
FindLeafFn(l, info, acc) ==
    IF EqualFold(info.Name, l.leaf)
    THEN [acc EXCEPT !.pathIDOut = GetID(info), !.found = TRUE]
    ELSE acc

ReadMetaFn_EqualFold(l, info, acc) ==
    IF EqualFold(info.Name, l.leaf)
    THEN [acc EXCEPT !.info = info, !.found = TRUE]
    ELSE acc

\* The closure readMetaDataForPath passes to listAll
ReadMetaFn(l, info, acc) ==
    IF info.Name = l.leaf
    THEN [acc EXCEPT !.info = info, !.found = TRUE]
    ELSE acc

Callback(l, info, acc) ==
    CASE l.fn = "list"     -> ListFn(l, info, acc)
      [] l.fn = "findleaf" -> FindLeafFn(l, info, acc)
      [] l.fn = "readmeta" -> ReadMetaFn(l, info, acc)

\* listAll's filter: folders are dropped under filesOnly, everything else
\* under directoriesOnly
Skipped(l, info) ==
    IF info.Type = ItemTypeFolder THEN l.filesOnly ELSE l.directoriesOnly

\* listAll: for i := range result.Data { ... if fn(item) { found = true; break OUTER } }
RECURSIVE WalkPage_NoStop(_, _, _, _)
WalkPage_NoStop(l, data, k, acc) ==
    IF k > Len(data) THEN acc
    ELSE IF Skipped(l, data[k]) THEN WalkPage_NoStop(l, data, k + 1, acc)
    ELSE WalkPage_NoStop(l, data, k + 1,
                         Callback(l, [data[k] EXCEPT !.Name = ToStandardName(@)], acc))

RECURSIVE WalkPage(_, _, _, _)
WalkPage(l, data, k, acc) ==
    IF k > Len(data) \/ acc.found THEN acc
    ELSE IF Skipped(l, data[k]) THEN WalkPage(l, data, k + 1, acc)
    ELSE WalkPage(l, data, k + 1,
                  Callback(l, [data[k] EXCEPT !.Name = ToStandardName(@)], acc))

NextRequestPage_Restart(next) == NoPage

\* listAll: page = result.NextPage, sent as the "page" parameter of the next request
NextRequestPage(next) == next

\* listAll: if page == nil { break }
MorePages(next) == next # NoPage

----------------------------------------------------------------------------
(* Control flow shared by the operations.  s bundles the values an operation
   carries between its requests: p the operation, dc the directory cache,
   ob the object handle, n the requests sent so far, lo the last verdict of
   shouldRetry. *)

Now(p, lo) == [p |-> p, dc |-> dirCache, ob |-> o, n |-> nreq, lo |-> lo]

Set(s, k, rq, rs, ls, rt, t) ==
    /\ op' = s.p /\ dirCache' = s.dc /\ o' = s.ob /\ nreq' = s.n /\ lastOut' = s.lo
    /\ pc' = k /\ req' = rq /\ res' = rs /\ lst' = ls /\ ret' = rt /\ try' = t

\* Hand a request to the pacer: first attempt of a new call, nothing
\* classified yet
Send(s, rq, rs, ls) == Set([s EXCEPT !.n = @ + 1, !.lo = NoOut], rq.kind, rq, rs, ls, NoRet, 1)

\* Object.Size: -1 when readMetaData returned an error, o.size otherwise
SizeResult(s, err, size) ==
    IF s.p.name # "Size" THEN size
    ELSE IF err # "nil" THEN -1 ELSE s.ob.size

\* The operation returns; of the last pacer call only the final (resp, err)
\* and its verdict stay on record
FinishL(s, err, r, ls) ==
    Set([s EXCEPT !.lo = [@ EXCEPT !.try = 0, !.prevStatus = 0, !.prevChallenge = ""]],
        "idle", NoReq, NoRes, ls,
        [r EXCEPT !.op = s.p.name, !.err = err, !.size = SizeResult(s, err, @)], 1)
Finish(s, err, r) == FinishL(s, err, r, NoLst)

\* pacer.Call: the same request is attempted again
Retry(s) == Set([s EXCEPT !.n = @ + 1], pc, req, res, lst, ret, try + 1)

\* pacer.Call attempts the upload again with the same rest.Opts: the body is
\* read from the same buffer, which holds what the attempts before left
RetryBody(s, left) ==
    Set([s EXCEPT !.n = @ + 1], pc, [req EXCEPT !.body = left], res, lst, ret, try + 1)

\* What shouldRetry said about (resp, err) = out in this attempt
Verdict(out) ==
    LET c == shouldRetry(cancelled, out) IN
    [out |-> out, cancelled |-> cancelled, retry |-> c.retry, err |-> c.err, try |-> try,
     prevStatus |-> IF try > 1 THEN lastOut.out.status ELSE 0,
     prevChallenge |-> IF try > 1 THEN lastOut.out.challenge ELSE ""]

\* pacer.Call makes at most MaxTries attempts
Again(v) == v.retry /\ try < MaxTries

ListRequest(dirID, page) == [kind |-> "list", id |-> dirID, num |-> page, name |-> "", auth |-> TRUE]

\* listAll up to its first request: folderId and perPage, no page parameter
StartListAll(s, dirID, fn, leaf, dir, directoriesOnly, filesOnly, rs) ==
    Send(s, ListRequest(dirID, NoPage), rs,
         [fn |-> fn, leaf |-> leaf, dir |-> dir, directoriesOnly |-> directoriesOnly,
          filesOnly |-> filesOnly, npages |-> 0, count |-> 0, entries |-> <<>>, served |-> <<>>,
          seen |-> {}, lastNext |-> NoPage])

\* DirCache.FindDir on a miss: Fs.FindLeaf in the deepest cached ancestor
FindLeafStart(s, target, create) ==
    LET at == CachedPrefix(s.dc, target) IN
    StartListAll(s, s.dc[at], "findleaf", target[Len(at) + 1], at, TRUE, FALSE,
                 [target |-> target, create |-> create, active |-> TRUE])

\* POST /uploads; body is what opts.Body, the bytes.Buffer the multipart form
\* was written to, still holds when the attempt is made
UploadRequest(directoryID, leaf) ==
    [kind |-> "upload", id |-> directoryID, num |-> 0, name |-> leaf, auth |-> TRUE,
     body |-> "complete"]

\* What an attempt that read from the buffer can leave in it
BodyLeft(body) ==
    CASE body = "complete"  -> {"complete", "truncated", "empty"}
      [] body = "truncated" -> {"truncated", "empty"}
      [] OTHER              -> {"empty"}

\* Object.Update after createObject: the size check, FindPath, then upload
UpdateAfterCreate(s) ==
    LET dir == SplitDir(s.p.path) IN
    IF s.p.size < 0 THEN Finish(s, "can't upload unknown sizes objects", NoRet)
    ELSE IF dir \in DOMAIN s.dc
         THEN Send(s, UploadRequest(s.dc[dir], SplitLeaf(s.p.path)), NoRes, NoLst)
         ELSE FindLeafStart([s EXCEPT !.p.phase = "update"], dir, TRUE)

\* dircache.New(root, rootID, f)
NewCache == (<<>> :> RootID)

\* NewFs returns the Fs with this root, the cache holding the identifier id
\* for it, and err
NewFsReturn(s, root, id, err, ls) ==
    FinishL([s EXCEPT !.dc = (<<>> :> id)], err, [NoRet EXCEPT !.root = root, !.id = id], ls)

\* The directory of the operation is resolved to id: the operation goes on
Resolved(s, id) ==
    CASE s.p.name = "NewFs" /\ s.p.phase = "root" ->
             NewFsReturn(s, s.p.path, id, "nil", NoLst)
      [] s.p.name = "NewFs" /\ s.p.phase = "parent" ->
             StartListAll([s EXCEPT !.dc = (<<>> :> id), !.p.phase = "file"], id, "readmeta",
                          SplitLeaf(s.p.path), SplitDir(s.p.path), FALSE, TRUE, NoRes)
      [] s.p.name = "List" ->
             StartListAll(s, id, "list", "", s.p.path, FALSE, FALSE, NoRes)
      [] s.p.name = "Mkdir" ->
             Finish(s, "nil", [NoRet EXCEPT !.id = id])
      [] s.p.name = "Rmdir" ->
             Send(s, [kind |-> "delete", id |-> "", num |-> Atoi(id), name |-> "", auth |-> TRUE], NoRes, NoLst)
      [] s.p.name \in {"NewObject", "Size"} ->
             StartListAll(s, id, "readmeta", SplitLeaf(s.p.path), SplitDir(s.p.path),
                          FALSE, TRUE, NoRes)
      [] s.p.name \in {"Put", "PutUnchecked"} /\ s.p.phase = "createObject" ->
             UpdateAfterCreate([s EXCEPT !.ob = NewObjectStruct(s.p.path)])
      [] OTHER ->
             Send(s, UploadRequest(id, SplitLeaf(s.p.path)), NoRes, NoLst)

\* DirCache.FindDir(path, create)
FindDir(s, path, create) ==
    IF path \in DOMAIN s.dc THEN Resolved(s, s.dc[path])
    ELSE FindLeafStart(s, path, create)

ResolveFailed_ListAnyway(s, err) ==
    IF s.p.name = "List"
    THEN StartListAll(s, "", "list", "", s.p.path, FALSE, FALSE, NoRes)
    ELSE Finish(s, IF s.p.name \in {"NewObject", "Size"} /\ err = "ErrorDirNotFound"
                   THEN "ErrorObjectNotFound" ELSE err, NoRet)

\* NewFs after FindRoot failed: the root is assumed to be a file and its
\* parent is looked for with a cache of its own; without the parent the Fs
\* is returned as it was made
NewFsFindRootFailed(s) ==
    IF s.p.phase = "root"
    THEN FindDir([s EXCEPT !.p.phase = "parent", !.dc = NewCache], SplitDir(s.p.path), FALSE)
    ELSE NewFsReturn(s, s.p.path, RootID, "nil", NoLst)

\* DirCache.FindDir failed: Fs.List returns the error with no entries;
\* readMetaDataForPath turns ErrorDirNotFound into ErrorObjectNotFound
ResolveFailed(s, err) ==
    IF s.p.name = "NewFs" THEN NewFsFindRootFailed(s)
    ELSE Finish(s, IF s.p.name \in {"NewObject", "Size"} /\ err = "ErrorDirNotFound"
                   THEN "ErrorObjectNotFound" ELSE err, NoRet)

\* DirCache.FindDir after one path component got its identifier
Descend(s, path, id) ==
    LET s2 == [s EXCEPT !.dc = DcPut(@, path, id)] IN
    IF path = res.target THEN Resolved(s2, id)
    ELSE FindLeafStart(s2, res.target, res.create)

\* DirCache.FindDir after Fs.FindLeaf returned
FindLeafDone(s, l, found, pathIDOut) ==
    LET path == SubSeq(res.target, 1, Len(l.dir) + 1) IN
    IF found THEN Descend(s, path, pathIDOut)
    ELSE IF res.create
         THEN Send(s, [kind |-> "mkdir", id |-> s.dc[l.dir], num |-> 0, name |-> l.leaf], res, l)
         ELSE ResolveFailed(s, "ErrorDirNotFound")

\* The object readMetaDataForPath's result is set on: the new one of
\* newObjectWithInfo, or the handle Size was called on
LookupObject(s) == IF s.p.name = "Size" THEN s.ob ELSE NewObjectStruct(s.p.path)

ListAllDone_Remember(s, l, acc) ==
    CASE l.fn = "list" ->
             IF acc.iErr # "nil" THEN FinishL(s, acc.iErr, NoRet, l)
             ELSE FinishL(s, "nil", [NoRet EXCEPT !.entries = l.entries], l)
      [] l.fn = "findleaf" ->
             FindLeafDone(s, l, acc.found, acc.pathIDOut)
      [] l.fn = "readmeta" ->
             IF ~acc.found
             THEN FinishL([s EXCEPT !.dc = DcPut(@, s.p.path, "")], "ErrorObjectNotFound", NoRet, l)
             ELSE LET m == setMetaData(LookupObject(s), acc.info) IN
                  IF m.err # "nil" THEN FinishL(s, m.err, NoRet, l)
                  ELSE FinishL([s EXCEPT !.ob = m.o], "nil", [NoRet EXCEPT !.found = TRUE], l)

NewFsListed_NoLookup(s, l, acc) ==
    NewFsReturn(s, SplitDir(s.p.path), s.dc[<<>>], "ErrorIsFile", l)

\* NewFs after tempF.newObjectWithInfo(ctx, remote, nil) looked for the leaf
\* in the parent
NewFsListed(s, l, acc) ==
    IF ~acc.found THEN NewFsReturn(s, s.p.path, RootID, "nil", l)
    ELSE LET m == setMetaData(NewObjectStruct(<<l.leaf>>), acc.info) IN
         IF m.err # "nil" THEN FinishL(s, m.err, NoRet, l)
         ELSE NewFsReturn(s, SplitDir(s.p.path), s.dc[<<>>], "ErrorIsFile", l)

\* listAll returned without error to List, FindLeaf or readMetaDataForPath
ListAllDone(s, l, acc) ==
    CASE l.fn = "readmeta" /\ s.p.name = "NewFs" ->
             NewFsListed(s, l, acc)
      [] l.fn = "list" ->
             IF acc.iErr # "nil" THEN FinishL(s, acc.iErr, NoRet, l)
             ELSE FinishL(s, "nil", [NoRet EXCEPT !.entries = l.entries], l)
      [] l.fn = "findleaf" ->
             FindLeafDone(s, l, acc.found, acc.pathIDOut)
      [] l.fn = "readmeta" /\ s.p.name # "NewFs" ->
             IF ~acc.found THEN FinishL(s, "ErrorObjectNotFound", NoRet, l)
             ELSE LET m == setMetaData(LookupObject(s), acc.info) IN
                  IF m.err # "nil" THEN FinishL(s, m.err, NoRet, l)
                  ELSE FinishL([s EXCEPT !.ob = m.o], "nil", [NoRet EXCEPT !.found = TRUE], l)

\* listAll returned "couldn't list files"
ListAllFailed(s, err) ==
    IF lst.fn = "findleaf" THEN ResolveFailed(s, err)
    ELSE Finish(s, err, NoRet)

\* listAll after a page was decoded
OnPage(s, data, next) ==
    LET acc == WalkPage(lst, data, 1, NoAcc(s.dc, lst.entries))
        l2  == [lst EXCEPT !.npages = @ + 1, !.count = @ + Len(data),
                           !.entries = acc.entries, !.lastNext = next,
                           !.served = @ \o data,
                           !.seen = IF lst.fn \in {"readmeta", "findleaf"}
                                    THEN @ \cup {data[k] : k \in 1..Len(data)} ELSE @]
        s2  == [s EXCEPT !.dc = acc.dc]
    IN  IF acc.found \/ ~MorePages(next) THEN ListAllDone(s2, l2, acc)
        ELSE Send(s2, ListRequest(req.id, NextRequestPage(next)), res, l2)

----------------------------------------------------------------------------
(* Responses of the vendor API *)

CreateDirBodies == { [Status |-> "success", FolderID |-> 5],
                     [Status |-> "error", FolderID |-> 0] }
DeleteStatuses == { "success", "error", "" }
UploadBodies == { [Status |-> "success", ID |-> 6, FileSize |-> 7, MimeType |-> "text/plain", CreatedAt |-> 15],
                  [Status |-> "success", ID |-> 0, FileSize |-> 0, MimeType |-> "", CreatedAt |-> 0],
                  [Status |-> "error", ID |-> 0, FileSize |-> 0, MimeType |-> "", CreatedAt |-> 0] }
Found302 == [status |-> 302, challenge |-> "", err |-> "nil", generic |-> FALSE]
Locations == { "", "https://cdn/signed" }
\* A 302 answer and its Location header
Redirect(location) == [status |-> 302, challenge |-> "", err |-> "nil", generic |-> FALSE,
                       location |-> location]

\* GET /file-entries/download/{id} through f.srv
DownloadRequest(id) == [kind |-> "download", id |-> id, num |-> 0, name |-> "", auth |-> TRUE]

FollowRequest_WithToken(location) ==
    [kind |-> "redirect", id |-> location, num |-> 0, name |-> "", auth |-> TRUE]

\* http.Get(redirectURL): the default client, no Authorization header
FollowRequest(location) ==
    [kind |-> "redirect", id |-> location, num |-> 0, name |-> "", auth |-> FALSE]

\* The attempt got (resp, nil): nothing for shouldRetry to classify
Answered(out) == [NoOut EXCEPT !.out = out]

\* The pre-signed upload of the older revision (src/unnamed/part_001):
\* status of the presign answer, the three requests, the PUT's outcomes, and
\* the bodies POST /s3/entries may answer with
PresignStatuses == { "success", "error" }
PresignRequest(directoryID, leaf) ==
    [kind |-> "presign", id |-> directoryID, num |-> 0, name |-> leaf, auth |-> TRUE]
PutRequest == [kind |-> "put", id |-> "https://s3/presigned", num |-> 0, name |-> "", auth |-> FALSE]
EntriesRequest == [kind |-> "entries", id |-> "", num |-> 0, name |-> "", auth |-> TRUE]
PutOutcomes == { OkOut,
                 [status |-> 403, challenge |-> "", err |-> "nil", generic |-> FALSE],
                 [status |-> 0, challenge |-> "", err |-> "net", generic |-> FALSE] }
EntriesBodies == { "<html>", "{json}", "garbage", "unreadable" }
EntriesAnswer(body) == [status |-> 200, challenge |-> "", err |-> "nil", generic |-> FALSE,
                        body |-> body]
\* var fileEntries struct before and after json.Unmarshal
ZeroEntries == [ClientName |-> "", ClientMime |-> "", Size |-> 0]
DecodedEntries == [ClientName |-> "f", ClientMime |-> "text/plain", Size |-> 7]
\* The modTime argument of upload: src.ModTime(ctx)
SrcModTime == [unix |-> 30, loc |-> "Local"]

\* f.root of the Fs under study
Root == <<>>

----------------------------------------------------------------------------
(* Operations: the code up to the first request *)

Begin(name, path, size, phase) ==
    [p |-> [name |-> name, path |-> path, size |-> size, phase |-> phase],
     dc |-> dirCache, ob |-> o, n |-> 0, lo |-> NoOut]

NewCtx == cancelled' = FALSE /\ UNCHANGED <<item, mt, gor>>

\* Fs.List
List(dir) ==
    /\ pc = "idle"
    /\ FindDir(Begin("List", dir, 0, ""), dir, FALSE)
    /\ NewCtx

\* Fs.Mkdir
Mkdir(dir) ==
    /\ pc = "idle"
    /\ FindDir(Begin("Mkdir", dir, 0, ""), dir, TRUE)
    /\ NewCtx

\* Fs.Rmdir -> Fs.purgeCheck
purgeRoot_Never(dir) == FALSE

\* purgeCheck: root := path.Join(f.root, dir); root == ""
purgeRoot(dir) == Root \o dir = <<>>

Rmdir(dir) ==
    /\ pc = "idle"
    /\ IF purgeRoot(dir)
       THEN Finish(Begin("Rmdir", dir, 0, ""), "can't purge root directory", NoRet)
       ELSE FindDir(Begin("Rmdir", dir, 0, ""), dir, FALSE)
    /\ NewCtx

\* The lookup of remote follows one of the same remote that returned
\* ErrorObjectNotFound
\* NewFs(root): FindRoot with a new cache
NewFs(root) ==
    /\ pc = "idle"
    /\ FindDir([Begin("NewFs", root, 0, "root") EXCEPT !.dc = NewCache, !.ob = NoObject],
               root, FALSE)
    /\ NewCtx

\* Object.ModTime: return o.modTime
ObjModTime ==
    /\ pc = "idle"
    /\ o.exists
    /\ Finish(Begin("ModTime", o.remote, 0, ""), "nil", [NoRet EXCEPT !.modTime = o.modTime])
    /\ NewCtx

\* Object.Size up to the first request of readMetaData(context.TODO())
SizeBody ==
    IF o.hasMetaData THEN Finish(Begin("Size", o.remote, 0, ""), "nil", NoRet)
    ELSE FindDir(Begin("Size", o.remote, 0, ""), SplitDir(o.remote), FALSE)

Size ==
    /\ pc = "idle"
    /\ o.exists
    /\ SizeBody
    /\ NewCtx

\* Object.SetModTime: panic("implement me")
SetModTime ==
    /\ pc = "idle"
    /\ o.exists
    /\ Set(Begin("SetModTime", o.remote, 0, ""), "panic", NoReq, NoRes, NoLst, NoRet, 1)
    /\ NewCtx

LookupPhase(remote) ==
    IF op.name = "NewObject" /\ op.path = remote /\ ret.err = "ErrorObjectNotFound"
    THEN "again" ELSE ""

\* Fs.NewObject -> newObjectWithInfo(remote, nil) -> readMetaData -> readMetaDataForPath
NewObject(remote) ==
    /\ pc = "idle"
    /\ FindDir(Begin("NewObject", remote, 0, LookupPhase(remote)), SplitDir(remote), FALSE)
    /\ NewCtx

\* Fs.Put and Fs.PutUnchecked: createObject (FindPath with create), then Update
PutBody(name, remote, size) ==
    FindDir(Begin(name, remote, size, "createObject"), SplitDir(remote), TRUE)

Put(remote, size) ==
    /\ pc = "idle"
    /\ PutBody("Put", remote, size)
    /\ NewCtx

PutUnchecked(remote, size) ==
    /\ pc = "idle"
    /\ PutBody("PutUnchecked", remote, size)
    /\ NewCtx

\* Object.Update: the size check, FindPath with create, then upload
UpdateBody(size) ==
    IF size < 0
    THEN Finish(Begin("Update", o.remote, size, "update"), "can't upload unknown sizes objects", NoRet)
    ELSE FindDir(Begin("Update", o.remote, size, "update"), SplitDir(o.remote), TRUE)

Update(size) ==
    /\ pc = "idle"
    /\ o.exists
    /\ UpdateBody(size)
    /\ NewCtx

OpenBody_NoIDCheck ==
    Send(Begin("Open", o.remote, 0, ""),
         DownloadRequest(o.id), NoRes, NoLst)

\* Object.Open up to the download request
OpenBody ==
    IF o.id = ""
    THEN Finish(Begin("Open", o.remote, 0, ""), "Download nicht moeglich - keine ID vorhanden", NoRet)
    ELSE Send(Begin("Open", o.remote, 0, ""),
              DownloadRequest(o.id), NoRes, NoLst)

Open ==
    /\ pc = "idle"
    /\ o.exists
    /\ OpenBody
    /\ NewCtx

\* Object.Remove up to the delete request
Remove ==
    /\ pc = "idle"
    /\ o.exists
    /\ Send(Begin("Remove", o.remote, 0, ""),
            [kind |-> "delete", id |-> "", num |-> Atoi(o.id), name |-> "", auth |-> TRUE], NoRes, NoLst)
    /\ NewCtx

\* Object.upload of the older revision, called by Update with the leaf and
\* the directory identifier FindPath returned: POST /s3/simple/presign
UploadPresigned(size) ==
    /\ pc = "idle"
    /\ o.exists
    /\ SplitDir(o.remote) \in DOMAIN dirCache
    /\ Send(Begin("upload", o.remote, size, "presign"),
            PresignRequest(dirCache[SplitDir(o.remote)], SplitLeaf(o.remote)), NoRes, NoLst)
    /\ NewCtx

\* The caller cancels the context of the operation in progress
Cancel ==
    /\ pc \notin {"idle", "panic"}
    /\ op.name # "Size"
    /\ ~cancelled
    /\ cancelled' = TRUE
    /\ UNCHANGED <<dirCache, o, op, pc, req, try, res, lst, ret, nreq, lastOut, item, mt, gor>>

----------------------------------------------------------------------------
(* Operations: one attempt of the pending request and the code after it *)

\* The context lives as long as the operation it was passed to
Attempt == cancelled' = (cancelled /\ pc' # "idle") /\ UNCHANGED <<item, mt, gor>>

\* Pages the server still has for this listAll
ServerNext == IF lst.npages + 1 < MaxPages THEN {NoPage} \cup NextPages ELSE {NoPage}

\* listAll: one GET /drive/file-entries through CallJSON, then the page loop
ListingResponse ==
    /\ pc = "list"
    /\ \E out \in Failures \cup {OkOut} :
         LET v == Verdict(out)
             s == Now(op, v)
         IN  IF Again(v) THEN Retry(s)
             ELSE IF v.err # "nil" THEN ListAllFailed(s, v.err)
             ELSE \E data \in PageData(req.id, MaxEntries - lst.count), next \in ServerNext :
                    OnPage(s, data, next)
    /\ Attempt

\* Fs.CreateDir: the identifier it returns for a decoded response
CreateDirResult(body) == [id |-> Itoa(body.FolderID), err |-> "nil"]

\* Fs.CreateDir: POST /folders through CallJSON, then DirCache.FindDir goes on
CreateDirResponse ==
    /\ pc = "mkdir"
    /\ \E out \in Failures \cup {OkOut} :
         LET v == Verdict(out)
             s == Now(op, v)
         IN  IF Again(v) THEN Retry(s)
             ELSE IF v.err # "nil" THEN ResolveFailed(s, v.err)
             ELSE \E body \in CreateDirBodies :
                    Descend(s, SubSeq(res.target, 1, Len(lst.dir) + 1), CreateDirResult(body).id)
    /\ Attempt

purgeAfterDelete_FlushAlways(dc, dir, status) ==
    IF status # "success"
    THEN [err |-> "delete, no api success", dc |-> FlushDir(dc, dir)]
    ELSE [err |-> "nil", dc |-> FlushDir(dc, dir)]

\* Fs.purgeCheck after the delete response was decoded
purgeAfterDelete(dc, dir, status) ==
    IF status # "success"
    THEN [err |-> "delete, no api success", dc |-> dc]
    ELSE [err |-> "nil", dc |-> FlushDir(dc, dir)]

removeAfterDelete_IgnoreStatus(status) == "nil"

\* Object.Remove after the delete response was decoded: errors.New(result.Status),
\* an error whose text is the status (the empty text included), or nil
removeAfterDelete(status) ==
    IF status # "success" THEN status ELSE "nil"

\* POST /file-entries/delete through CallJSON, for purgeCheck and Object.Remove
DeleteResponse ==
    /\ pc = "delete"
    /\ \E out \in Failures \cup {OkOut} :
         LET v == Verdict(out)
             s == Now(op, v)
         IN  IF Again(v) THEN Retry(s)
             ELSE IF v.err # "nil" THEN Finish(s, v.err, NoRet)
             ELSE \E status \in DeleteStatuses :
                    IF op.name = "Rmdir"
                    THEN LET r == purgeAfterDelete(dirCache, op.path, status) IN
                         Finish([s EXCEPT !.dc = r.dc], r.err, [NoRet EXCEPT !.id = status, !.found = TRUE])
                    ELSE Finish(s, removeAfterDelete(status), [NoRet EXCEPT !.id = status, !.found = TRUE])
    /\ Attempt

\* Object.upload after the upload response was decoded: [err, o]
uploadResult_AssignFirst(ob, body) ==
    [err |-> IF body.Status # "success" THEN "upload failed" ELSE "nil",
     o |-> [ob EXCEPT !.id = Itoa(body.ID), !.size = body.FileSize,
                      !.modTime = [unix |-> body.CreatedAt, loc |-> "UTC"],
                      !.mimeType = body.MimeType, !.hasMetaData = TRUE]]

uploadResult(ob, body) ==
    IF body.Status # "success"
    THEN [err |-> "upload failed", o |-> ob]
    ELSE [err |-> "nil",
          o |-> [ob EXCEPT !.id = Itoa(body.ID), !.size = body.FileSize,
                           !.modTime = [unix |-> body.CreatedAt, loc |-> "UTC"],
                           !.mimeType = body.MimeType, !.hasMetaData = TRUE]]

\* Object.upload: POST /uploads through the pacer
UploadResponse ==
    /\ pc = "upload"
    /\ \E out \in Failures \cup {OkOut} :
         LET v == Verdict(out)
             s == Now(op, v)
         IN  IF Again(v) THEN \E left \in BodyLeft(req.body) : RetryBody(s, left)
             ELSE IF v.err # "nil" THEN Finish(s, v.err, NoRet)
             ELSE \E body \in UploadBodies :
                    LET r == uploadResult(o, body) IN
                    Finish([s EXCEPT !.ob = r.o], r.err, NoRet)
    /\ Attempt

\* Older Object.upload: the presign answer, then the PUT to the signed URL
\* with http.DefaultClient
PresignResponse ==
    /\ pc = "presign"
    /\ \E out \in Failures \cup {OkOut} :
         LET v == Verdict(out)
             s == Now(op, v)
         IN  IF Again(v) THEN Retry(s)
             ELSE IF v.err # "nil" THEN Finish(s, v.err, NoRet)
             ELSE \E status \in PresignStatuses :
                    IF status # "success"
                    THEN Finish(s, "Status ist nicht 'success'", NoRet)
                    ELSE Set([s EXCEPT !.n = @ + 1, !.lo = NoOut], "put", PutRequest,
                             NoRes, NoLst, NoRet, 1)
    /\ Attempt

\* Older Object.upload: the PUT is not retried; on status 200 the entry is
\* requested with POST /s3/entries
PutResponse ==
    /\ pc = "put"
    /\ \E out \in PutOutcomes :
         IF out.err # "nil" \/ out.status # 200
         THEN Finish(Now(op, Answered(out)), "fehler beim Hochladen der Datei", NoRet)
         ELSE Send(Now(op, NoOut), EntriesRequest, NoRes, NoLst)
    /\ Attempt

\* Older Object.upload after the pacer call returned nil: the handle gets
\* what fileEntries holds
entriesResult(ob, fileEntries, modTime) ==
    [ob EXCEPT !.remote = IF fileEntries.ClientName = "" THEN << >> ELSE <<fileEntries.ClientName>>,
               !.mimeType = fileEntries.ClientMime,
               !.size = fileEntries.Size,
               !.modTime = modTime]

\* Older Object.upload: POST /s3/entries inside the pacer closure.  A body
\* that starts with "<" ends the call with (false, nil); any other body is
\* unmarshalled, and shouldRetry sees a read or decode error.
EntriesResponse ==
    /\ pc = "entries"
    /\ \E out \in Failures \cup { EntriesAnswer(b) : b \in EntriesBodies } :
         IF out.err # "nil"
         THEN LET v == Verdict(out)
                  s == Now(op, v)
              IN  IF Again(v) THEN Retry(s) ELSE Finish(s, v.err, NoRet)
         ELSE IF out.body = "<html>"
              THEN Finish([Now(op, Answered(out)) EXCEPT !.ob = entriesResult(o, ZeroEntries, SrcModTime)],
                          "nil", NoRet)
              ELSE IF out.body = "{json}"
              THEN Finish([Now(op, Answered(out)) EXCEPT !.ob = entriesResult(o, DecodedEntries, SrcModTime)],
                          "nil", NoRet)
              ELSE \E generic \in BOOLEAN :
                     LET v == Verdict([status |-> 200, challenge |-> "",
                                       err |-> IF out.body = "unreadable" THEN "read" ELSE "decode",
                                       generic |-> generic])
                         s == Now(op, v)
                     IN  IF Again(v) THEN Retry(s) ELSE Finish(s, v.err, NoRet)
    /\ Attempt

\* Object.Open: GET /file-entries/download/{id} inside the pacer closure
DownloadResponse ==
    /\ pc = "download"
    /\ \E out \in Failures \cup {OkOut} \cup { Redirect(l) : l \in Locations } :
         IF out.err # "nil"
         THEN LET v == Verdict(out)
                  s == Now(op, v)
              IN  IF Again(v) THEN Retry(s) ELSE Finish(s, v.err, NoRet)
         ELSE IF out.status = Found302.status
              THEN IF out.location = ""
                   THEN Finish(Now(op, Answered(out)), "Weiterleitungs-URL nicht gefunden", NoRet)
                   ELSE Set([Now(op, Answered(out)) EXCEPT !.n = @ + 1], "redirect",
                            FollowRequest(out.location), NoRes, NoLst, NoRet, try)
              ELSE Finish(Now(op, Answered(out)), "nil", [NoRet EXCEPT !.found = TRUE, !.id = req.id])
    /\ Attempt

\* Object.Open: http.Get(redirectURL) inside the same pacer closure
RedirectResponse ==
    /\ pc = "redirect"
    /\ \E out \in {OkOut, [status |-> 0, challenge |-> "", err |-> "net", generic |-> TRUE]} :
         IF out.err # "nil"
         THEN LET v == Verdict(out)
                  s == Now(op, v)
              IN  IF Again(v)
                  THEN Set([s EXCEPT !.n = @ + 1], "download", DownloadRequest(o.id),
                           NoRes, NoLst, NoRet, try + 1)
                  ELSE Finish(s, v.err, NoRet)
         ELSE Finish(Now(op, lastOut), "nil", [NoRet EXCEPT !.found = TRUE, !.id = req.id])
    /\ Attempt

----------------------------------------------------------------------------
(* The adapter *)

NoTime == [unix |-> -1, loc |-> "unset"]

(* Fs.List and Fs.Rmdir called from two goroutines on one Fs.  Each call runs
   the code above on its own local variables, here gor[g]; the goroutines
   share f.dirCache, whose calls are atomic.  A pacer call is one step that
   ends with the decoded response or with its error. *)

ConcEntries == 1     \* entries the server sends to one listing
ConcPages == 1       \* pages the server splits one listing into

Others == <<dirCache, o, op, pc, req, try, cancelled, res, lst, ret, nreq, lastOut, item, mt>>

GoListAll(c, dirID, fn, leaf, dir, directoriesOnly, filesOnly) ==
    [c EXCEPT !.pc = "list", !.id = dirID,
              !.lst = [NoLst EXCEPT !.fn = fn, !.leaf = leaf, !.dir = dir,
                                    !.directoriesOnly = directoriesOnly,
                                    !.filesOnly = filesOnly]]

GoReturn(c, err, entries, l) ==
    [c EXCEPT !.pc = "idle", !.err = err, !.entries = entries, !.lst = l]

\* Fs.List and purgeCheck after FindDir returned id
GoResolved(c, id) ==
    IF c.name = "List" THEN GoListAll(c, id, "list", "", c.path, FALSE, FALSE)
    ELSE [c EXCEPT !.pc = "delete", !.id = id, !.lst = NoLst]

\* DirCache.FindDir(path, false)
GoFindDir(dc, c) ==
    IF c.path \in DOMAIN dc THEN GoResolved(c, dc[c.path])
    ELSE LET at == CachedPrefix(dc, c.path) IN
         GoListAll(c, dc[at], "findleaf", c.path[Len(at) + 1], at, TRUE, FALSE)

GoStart(g, name, dir) ==
    /\ gor[g].pc = "idle"
    /\ gor' = [gor EXCEPT ![g] =
                 IF name = "Rmdir" /\ purgeRoot(dir)
                 THEN GoReturn([NoCall EXCEPT !.name = name, !.path = dir],
                               "can't purge root directory", <<>>, NoLst)
                 ELSE GoFindDir(dirCache, [NoCall EXCEPT !.name = name, !.path = dir])]
    /\ UNCHANGED Others

GoNext(g) == IF gor[g].lst.npages + 1 < ConcPages THEN {NoPage} \cup NextPages ELSE {NoPage}

ListEntries_Shared(g) == gor[1].lst.entries

\* The slice the callback of Fs.List appends to: the entries result of the
\* call
ListEntries(g) == gor[g].lst.entries

\* listAll of goroutine g after a page was decoded
GoOnPage(g, data, next) ==
    LET c   == gor[g]
        l   == c.lst
        acc == WalkPage(l, data, 1, NoAcc(dirCache, ListEntries(g)))
        l2  == [l EXCEPT !.npages = @ + 1, !.count = @ + Len(data),
                         !.entries = acc.entries, !.lastNext = next]
        path == SubSeq(c.path, 1, Len(l.dir) + 1)
    IN  IF ~(acc.found \/ ~MorePages(next))
        THEN dirCache' = acc.dc /\ gor' = [gor EXCEPT ![g] = [c EXCEPT !.lst = l2]]
        ELSE IF l.fn = "list"
        THEN /\ dirCache' = acc.dc
             /\ gor' = [gor EXCEPT ![g] =
                          IF acc.iErr # "nil" THEN GoReturn(c, acc.iErr, <<>>, l2)
                                              ELSE GoReturn(c, "nil", l2.entries, l2)]
        ELSE IF ~acc.found
        THEN /\ dirCache' = acc.dc
             /\ gor' = [gor EXCEPT ![g] = GoReturn(c, "ErrorDirNotFound", <<>>, NoLst)]
        ELSE LET dc2 == DcPut(acc.dc, path, acc.pathIDOut) IN
             /\ dirCache' = dc2
             /\ gor' = [gor EXCEPT ![g] = IF path = c.path THEN GoResolved(c, acc.pathIDOut)
                                                           ELSE GoFindDir(dc2, c)]

\* A listing request of goroutine g is answered, or its pacer call fails
GoListingResponse(g) ==
    /\ gor[g].pc = "list"
    /\ \/ /\ gor' = [gor EXCEPT ![g] = GoReturn(gor[g], "couldn't list files", <<>>, NoLst)]
          /\ dirCache' = dirCache
       \/ \E data \in PageData(gor[g].id, ConcEntries - gor[g].lst.count), next \in GoNext(g) :
             GoOnPage(g, data, next)
    /\ UNCHANGED <<o, op, pc, req, try, cancelled, res, lst, ret, nreq, lastOut, item, mt>>

\* The delete request of goroutine g's Rmdir is answered, or its pacer call
\* fails
GoDeleteResponse(g) ==
    /\ gor[g].pc = "delete"
    /\ \/ /\ gor' = [gor EXCEPT ![g] = GoReturn(gor[g], "http", <<>>, NoLst)]
          /\ dirCache' = dirCache
       \/ \E status \in DeleteStatuses :
             LET r == purgeAfterDelete(dirCache, gor[g].path, status) IN
             /\ dirCache' = r.dc
             /\ gor' = [gor EXCEPT ![g] = GoReturn(gor[g], r.err, <<>>, NoLst)]
    /\ UNCHANGED <<o, op, pc, req, try, cancelled, res, lst, ret, nreq, lastOut, item, mt>>

Init ==
    /\ dirCache = (<<>> :> RootID)
    /\ o = NoObject
    /\ op = NoOp
    /\ pc = "idle"
    /\ req = NoReq
    /\ try = 1
    /\ cancelled = FALSE
    /\ res = NoRes
    /\ lst = NoLst
    /\ ret = NoRet
    /\ nreq = 0
    /\ lastOut = NoOut
    /\ item = NoItem
    /\ mt = NoTime
    /\ gor = [g \in Goroutines |-> NoCall]

Next ==
    \/ \E dir \in ListDirs : List(dir)
    \/ \E dir \in Dirs : Mkdir(dir)
    \/ \E dir \in Dirs : Rmdir(dir)
    \/ \E remote \in LookupRemotes : NewObject(remote)
    \/ \E remote \in Remotes, size \in Sizes : Put(remote, size)
    \/ \E remote \in Remotes, size \in Sizes : PutUnchecked(remote, size)
    \/ \E size \in Sizes : Update(size)
    \/ \E size \in Sizes \ {-1} : UploadPresigned(size)
    \/ Open
    \/ Remove
    \/ Cancel
    \/ ListingResponse
    \/ CreateDirResponse
    \/ DeleteResponse
    \/ UploadResponse
    \/ PresignResponse
    \/ PutResponse
    \/ EntriesResponse
    \/ DownloadResponse
    \/ RedirectResponse

Spec == Init /\ [][Next]_vars

\* The directory operations on their own
NextDir ==
    \/ \E dir \in ListDirs : List(dir)
    \/ \E dir \in Dirs : Mkdir(dir)
    \/ \E dir \in Dirs : Rmdir(dir)
    \/ Cancel
    \/ ListingResponse
    \/ CreateDirResponse
    \/ DeleteResponse

SpecDir == Init /\ [][NextDir]_vars

\* Uploads, downloads and removals of the object handle
NextObj ==
    \/ \E remote \in Remotes, size \in Sizes : Put(remote, size)
    \/ \E remote \in Remotes, size \in Sizes : PutUnchecked(remote, size)
    \/ \E size \in Sizes : Update(size)
    \/ Open
    \/ Remove
    \/ Cancel
    \/ ListingResponse
    \/ CreateDirResponse
    \/ DeleteResponse
    \/ UploadResponse
    \/ DownloadResponse
    \/ RedirectResponse

SpecObj == Init /\ [][NextObj]_vars

\* The two upload strategies: multipart POST /uploads and the older
\* pre-signed PUT
NextUpload ==
    \/ \E remote \in Remotes, size \in Sizes : Put(remote, size)
    \/ \E size \in Sizes : Update(size)
    \/ \E size \in Sizes \ {-1} : UploadPresigned(size)
    \/ Cancel
    \/ ListingResponse
    \/ CreateDirResponse
    \/ UploadResponse
    \/ PresignResponse
    \/ PutResponse
    \/ EntriesResponse

SpecUpload == Init /\ [][NextUpload]_vars

\* Looking objects up
\* Two goroutines on one Fs, each calling Fs.List or Fs.Rmdir
NextConc ==
    \/ \E g \in Goroutines, dir \in ListDirs : GoStart(g, "List", dir)
    \/ \E g \in Goroutines, dir \in Dirs : GoStart(g, "Rmdir", dir)
    \/ \E g \in Goroutines : GoListingResponse(g)
    \/ \E g \in Goroutines : GoDeleteResponse(g)

SpecConc == Init /\ [][NextConc]_vars

NextMeta ==
    \/ \E remote \in Remotes, size \in Sizes : Put(remote, size)
    \/ Size
    \/ ObjModTime
    \/ SetModTime
    \/ Cancel
    \/ ListingResponse
    \/ CreateDirResponse
    \/ UploadResponse

SpecMeta == Init /\ [][NextMeta]_vars

NewFsRoots == { <<>>, <<"a">>, <<"a", "a">>, <<"a", "f">>, <<"f">> }

NextNewFs ==
    \/ \E root \in NewFsRoots : NewFs(root)
    \/ Cancel
    \/ ListingResponse

SpecNewFs == Init /\ [][NextNewFs]_vars

NextLookup ==
    \/ \E remote \in LookupRemotes : NewObject(remote)
    \/ Cancel
    \/ ListingResponse

SpecLookup == Init /\ [][NextLookup]_vars

----------------------------------------------------------------------------
(* The timestamp decoder on its own: every pair of (updated, created) *)

InitModTime ==
    /\ dirCache = (<<>> :> RootID) /\ o = NoObject /\ op = NoOp /\ req = NoReq /\ try = 1
    /\ cancelled = FALSE /\ res = NoRes /\ lst = NoLst /\ ret = NoRet
    /\ nreq = 0 /\ lastOut = NoOut
    /\ pc = "decode"
    /\ item \in [UpdatedAt : TimeStrings, CreatedAt : TimeStrings]
    /\ mt = NoTime
    /\ gor = [g \in Goroutines |-> NoCall]

\* Item.ModTime applied to the item
DecodeModTime ==
    /\ pc = "decode"
    /\ mt' = ModTime(item)
    /\ pc' = "decoded"
    /\ UNCHANGED <<dirCache, o, op, req, try, cancelled, res, lst, ret, nreq, lastOut, item, gor>>

NextModTime == DecodeModTime

SpecModTime == InitModTime /\ [][NextModTime]_vars

----------------------------------------------------------------------------
(* The retry policy on its own: one pacer call over every (resp, err) *)

InitRetry ==
    /\ dirCache = (<<>> :> RootID) /\ o = NoObject /\ op = NoOp /\ req = NoReq /\ try = 1
    /\ cancelled = FALSE /\ res = NoRes /\ lst = NoLst /\ ret = NoRet
    /\ nreq = 1 /\ lastOut = NoOut
    /\ pc = "call"
    /\ item = NoItem
    /\ mt = NoTime
    /\ gor = [g \in Goroutines |-> NoCall]

\* CallJSON: f.pacer.Call(func() { resp, err := f.srv.CallJSON(...); return shouldRetry(ctx, resp, err) })
PacerAttempt ==
    /\ pc = "call"
    /\ \E out \in AllOutcomes :
         LET v == Verdict(out) IN
         /\ lastOut' = v
         /\ IF Again(v)
            THEN /\ try' = try + 1
                 /\ nreq' = nreq + 1
                 /\ UNCHANGED <<pc, ret>>
            ELSE /\ pc' = "done"
                 /\ ret' = [NoRet EXCEPT !.op = "call", !.err = v.err]
                 /\ UNCHANGED <<try, nreq>>
    /\ UNCHANGED <<dirCache, o, op, req, cancelled, res, lst, item, mt, gor>>

\* The caller cancels the context during the call
CancelCall ==
    /\ pc = "call"
    /\ ~cancelled
    /\ cancelled' = TRUE
    /\ UNCHANGED <<dirCache, o, op, pc, req, try, res, lst, ret, nreq, lastOut, item, mt, gor>>

NextRetry == PacerAttempt \/ CancelCall

SpecRetry == InitRetry /\ [][NextRetry]_vars

----------------------------------------------------------------------------
(* Properties *)

\* The entry List returns for a listed item
IdString(n) == IF n = 0 THEN "" ELSE ToString(n)
Delivers(e, dir, info) ==
    /\ e.remote = Append(dir, info.Name)
    /\ e.isDir = (info.Type = "folder")
    /\ e.id = IdString(info.ID)

ListReturned == pc = "idle" /\ op.name = "List" /\ lst.fn = "list" /\ ret.err = "nil"

\* C1: List delivers every entry of every page the server returned exactly
\* once and in server order; the first listing request has no page parameter,
\* each later one carries the next_page of the previous response, and List
\* returns, with no further request, at the first response without next_page.
C1_Pagination ==
    /\ (pc = "list" /\ lst.fn = "list") =>
          /\ lst.npages = 0 => req.num = NoPage
          /\ lst.npages > 0 => (lst.lastNext # NoPage /\ req.num = lst.lastNext)
          /\ Len(lst.entries) = Len(lst.served)
    /\ ListReturned =>
          /\ lst.lastNext = NoPage
          /\ nreq >= lst.npages
          /\ Len(ret.entries) = Len(lst.served)
          /\ \A k \in 1..Len(lst.served) : Delivers(ret.entries[k], op.path, lst.served[k])

C1_Witness ==
    /\ ListReturned
    /\ lst.npages = 2
    /\ Len(ret.entries) = 3
    /\ ret.entries[1] # ret.entries[2]
    /\ ret.entries[2] # ret.entries[3]

----------------------------------------------------------------------------
(* The path cache (C2, C3) *)

IsFolder(info) == info.Type = "folder"

\* The entries a listing response added to what the server has served
NewlyServed == { k \in (Len(lst.served) + 1)..Len(lst'.served) : IsFolder(lst'.served[k]) }

\* A page of List was decoded in this step
ListPageStep == pc = "list" /\ lst.fn = "list" /\ lst'.npages = lst.npages + 1

\* List puts every folder of the page into the cache, the last entry of a
\* name deciding its identifier
ListPopulates ==
    ListPageStep =>
       \A k \in NewlyServed :
          LET P == Append(lst.dir, lst'.served[k].Name)
              last == CHOOSE j \in NewlyServed :
                         /\ lst'.served[j].Name = lst'.served[k].Name
                         /\ \A i \in NewlyServed : lst'.served[i].Name = lst'.served[k].Name => i <= j
          IN  P \in DOMAIN dirCache' /\ dirCache'[P] = IdString(lst'.served[last].ID)

\* CreateDir answered: the new path is cached with the identifier of the response
CreateDirPopulates ==
    (pc = "mkdir" /\ cancelled' = cancelled /\ lastOut'.err = "nil") =>
       LET P == SubSeq(res.target, 1, Len(lst.dir) + 1) IN
       /\ P \in DOMAIN dirCache'
       /\ dirCache'[P] \in { ToString(b.FolderID) : b \in CreateDirBodies }

\* An operation on a cached directory starts: the cached identifier is what
\* it uses, and no lookup request is sent for it
CachedResolution ==
    (pc = "idle" /\ op'.name \in {"List", "Mkdir", "Rmdir"} /\ op'.path \in DOMAIN dirCache
       /\ ~(op'.name = "Rmdir" /\ op'.path = <<>>)) =>
       /\ ~res'.active
       /\ dirCache' = dirCache
       /\ op'.name = "Mkdir" => (pc' = "idle" /\ nreq' = 0 /\ ret'.err = "nil"
                                   /\ ret'.id = dirCache[op'.path])
       /\ op'.name = "List" => (pc' = "list" /\ lst'.fn = "list" /\ nreq' = 1
                                  /\ req'.id = dirCache[op'.path])
       /\ op'.name = "Rmdir" => (pc' = "delete" /\ nreq' = 1
                                   /\ req'.num = Atoi(dirCache[op'.path]))

\* An entry leaves the cache only when a Rmdir of it or of an ancestor got
\* the status "success"
EvictedOnlyByFlush ==
    \A P \in DOMAIN dirCache :
       P \notin DOMAIN dirCache' =>
          /\ pc = "delete" /\ op.name = "Rmdir" /\ IsPrefix(op.path, P)
          /\ ret'.found /\ ret'.id = "success"

\* The identifier of a cached path changes only when List puts the path again
ReplacedOnlyByList ==
    \A P \in (DOMAIN dirCache) \cap (DOMAIN dirCache') :
       dirCache'[P] # dirCache[P] =>
          /\ ListPageStep
          /\ \E k \in NewlyServed : /\ P = Append(lst.dir, lst'.served[k].Name)
                                    /\ dirCache'[P] = IdString(lst'.served[k].ID)

\* C2 as stated: once the identifier of path P is in the cache, it is that
\* same identifier for as long as P stays in the cache.
C2_Original ==
    [][\A P \in (DOMAIN dirCache) \cap (DOMAIN dirCache') : dirCache'[P] = dirCache[P]]_vars

\* C2: a successful List page or CreateDir puts the folder's identifier into
\* the path cache; resolving a cached path P uses the identifier the cache
\* holds for P and sends no lookup request; the identifier of P changes only
\* when a later List puts P again, and P leaves the cache only by the
\* FlushDir of a Rmdir that succeeded.
C2_CachedResolution ==
    [][ /\ ListPopulates
        /\ CreateDirPopulates
        /\ CachedResolution
        /\ EvictedOnlyByFlush
        /\ ReplacedOnlyByList ]_vars

C2_Witness ==
    /\ pc = "list" /\ op.name = "List" /\ op.path = <<"a">> /\ lst.fn = "list"
    /\ nreq = 1
    /\ dirCache[<<"a">>] = "2"
    /\ req.id = "2"

\* A Rmdir whose delete response was decoded ends in this step
RmdirDecoded == pc = "delete" /\ op.name = "Rmdir" /\ pc' = "idle" /\ ret'.found

\* C3 as stated: after a Rmdir whose delete request succeeded at the
\* transport level, whatever the status field, the cache holds no entry for dir.
C3_Original ==
    (pc = "idle" /\ op.name = "Rmdir" /\ ret.found) => op.path \notin DOMAIN dirCache

\* C3: Rmdir(dir) evicts dir and everything below it from the path cache when
\* the delete response has status "success"; on any other status it returns
\* an error and leaves the cache as it was, dir included.
C3_EvictOnSuccess ==
    [][ RmdirDecoded =>
          IF ret'.id = "success"
          THEN /\ ret'.err = "nil"
               /\ DOMAIN dirCache' = { P \in DOMAIN dirCache : ~IsPrefix(op.path, P) }
               /\ \A P \in DOMAIN dirCache' : dirCache'[P] = dirCache[P]
          ELSE /\ ret'.err # "nil"
               /\ dirCache' = dirCache
               /\ op.path \in DOMAIN dirCache' ]_vars

C3_Witness ==
    /\ pc = "idle" /\ op.name = "Rmdir" /\ ret.found
    /\ ret.id = "error"
    /\ ret.err # "nil"
    /\ op.path \in DOMAIN dirCache

----------------------------------------------------------------------------
(* The retry policy (C4, C8) *)

Classified == lastOut.try >= 1
ExpiredToken(status, challenge) == status = 401 /\ challenge = "Bearer error=\"expired_token\""

\* C4: an attempt answered 401 with an expired_token challenge is retried
\* although 401 is not a retryable status code and the generic predicate may
\* decline; when the attempt after it is answered 200 the call returns no error.
C4_ExpiredTokenRetry ==
    /\ (Classified /\ ~lastOut.cancelled
          /\ ExpiredToken(lastOut.out.status, lastOut.out.challenge)) =>
          /\ lastOut.retry
          /\ lastOut.out.status \notin {429, 500, 502, 503, 504, 509}
          /\ lastOut.try < MaxTries => (pc = "call" /\ try = lastOut.try + 1 /\ nreq = try)
    /\ (pc = "done" /\ lastOut.try = 2 /\ ~lastOut.cancelled
          /\ ExpiredToken(lastOut.prevStatus, lastOut.prevChallenge)
          /\ lastOut.out.status = 200 /\ lastOut.out.err = "nil") =>
          /\ ret.err = "nil"
          /\ nreq = 2

C4_Witness ==
    /\ pc = "done" /\ lastOut.try = 2 /\ nreq = 2
    /\ ExpiredToken(lastOut.prevStatus, lastOut.prevChallenge)
    /\ lastOut.out.status = 200
    /\ ret.err = "nil"

----------------------------------------------------------------------------
(* Uploads, Open, Remove, NewObject (C5, C6, C9, C10) *)

\* C5 as stated: an upload whose source declares size -1 fails with an error
\* and sends no request, whatever the path cache holds.
C5_Claim ==
    (op.name \in {"Put", "PutUnchecked", "Update"} /\ op.size < 0) =>
       (pc = "idle" /\ ret.err # "nil" /\ nreq = 0)

\* C6: Open on a handle whose identifier is empty returns an error and sends
\* no request.
C6_OpenNoID ==
    (op.name = "Open" /\ o.id = "") => (pc = "idle" /\ ret.err # "nil" /\ nreq = 0)

C6_Witness ==
    /\ op.name = "Open" /\ o.exists /\ o.id = ""
    /\ pc = "idle" /\ nreq = 0
    /\ ret.err = "Download nicht moeglich - keine ID vorhanden"

\* C9: Object.Remove whose delete response was received with 200 and decoded
\* returns an error when the status field is not "success", and returns nil
\* only when it is "success".
C9_RemoveStatus ==
    (pc = "idle" /\ op.name = "Remove") =>
       /\ ret.found => (ret.err = "nil" <=> ret.id = "success")
       /\ ret.err = "nil" => (ret.found /\ ret.id = "success")

C9_Witness ==
    /\ pc = "idle" /\ op.name = "Remove" /\ ret.found
    /\ lastOut.out.status = 200 /\ lastOut.err = "nil"
    /\ ret.id = "error"
    /\ ret.err = "error"

\* C10 as stated: NewObject on a path whose leaf names a folder the parent's
\* listing contains returns the is-a-directory error.
C10_Claim ==
    (/\ pc = "idle" /\ op.name = "NewObject" /\ lst.fn = "readmeta"
     /\ lastOut.err = "nil"
     /\ \E i \in lst.seen : IsFolder(i) /\ i.Name = SplitLeaf(op.path)) =>
       ret.err = "ErrorIsDir"

----------------------------------------------------------------------------
(* Item.ModTime (C7) *)

Parsable(s) == s # "" /\ \E k \in 1..Len(formats) : Accepts(formats[k], s)

\* C7: Item.ModTime gives the local time of the updated field when one of the
\* formats, tried in order, accepts it; otherwise that of the created field;
\* otherwise the zero time; for every pair of strings it gives a time value.
C7_ModTime ==
    pc = "decoded" =>
       /\ mt \in [unix : Nat, loc : {"UTC", "Local"}]
       /\ Parsable(item.UpdatedAt) => mt = [unix |-> Instant(item.UpdatedAt), loc |-> "Local"]
       /\ (~Parsable(item.UpdatedAt) /\ Parsable(item.CreatedAt)) =>
             mt = [unix |-> Instant(item.CreatedAt), loc |-> "Local"]
       /\ (~Parsable(item.UpdatedAt) /\ ~Parsable(item.CreatedAt)) =>
             mt = [unix |-> 0, loc |-> "UTC"]

C7_Witness ==
    /\ pc = "decoded"
    /\ item.UpdatedAt = "yesterday" /\ item.CreatedAt = "2023-01-18 10:30:00"
    /\ mt = [unix |-> 18, loc |-> "Local"]

----------------------------------------------------------------------------
(* Lookups (C11) *)

\* NewObject returned, and what its listing of the parent showed
LookupReturned == pc = "idle" /\ op.name = "NewObject"
ParentListed == lst.fn = "readmeta" /\ lastOut.err = "nil"
ListedFiles == { i \in lst.seen : ~IsFolder(i) /\ i.Name = SplitLeaf(op.path) }

----------------------------------------------------------------------------
(* Entries of unknown type (C12) *)

\* C12: List omits every server entry whose type tag is not a recognized
\* type: such an entry is returned neither as a file nor as a directory.
C12_Claim ==
    ListReturned =>
       \A k \in 1..Len(lst.served) :
          lst.served[k].Type \notin ItemTypes =>
             \A j \in 1..Len(ret.entries) : ~Delivers(ret.entries[j], lst.dir, lst.served[k])

----------------------------------------------------------------------------
(* List of a directory that does not resolve (C13) *)

----------------------------------------------------------------------------
(* Identifiers of file handles (C14, C15) *)

\* C14: a file handle whose metadata flag is set, by setMetaData from a
\* listing entry or by a successful upload, has an identifier that is neither
\* "0" nor empty, also when the response omits the id or reports id 0.
C14_Claim == o.hasMetaData => o.id \notin { "0", "" }

\* C15: Object.Remove on a handle whose identifier is empty returns an error
\* and sends no request; no delete request for entry id 0 is ever sent.
C15_Claim ==
    /\ (op.name = "Remove" /\ o.id = "") => (pc = "idle" /\ ret.err # "nil" /\ nreq = 0)
    /\ (op.name = "Remove" /\ pc = "delete") => req.num # 0

----------------------------------------------------------------------------
(* Redirected downloads (C16) *)

\* A download attempt is answered with 302 in this step
RedirectAnswer == pc = "download" /\ lastOut'.out.status = 302

\* C16: a download request answered with 302 and a Location is followed by
\* exactly one GET to that location, sent without the bearer token, and Open
\* returns the body of the response to that GET; a 302 without Location makes
\* Open fail at once, with no follow-up and no further attempt.
C16_Redirect ==
    [][ /\ RedirectAnswer =>
             IF lastOut'.out.location = ""
             THEN /\ pc' = "idle" /\ ret'.err # "nil" /\ ~ret'.found
                  /\ nreq' = nreq
             ELSE /\ pc' = "redirect" /\ nreq' = nreq + 1 /\ try' = try
                  /\ req'.kind = "redirect" /\ req'.id = lastOut'.out.location
                  /\ ~req'.auth
        /\ (pc # "download" /\ pc' = "redirect") => (pc = "redirect" /\ req' = req /\ nreq' = nreq)
        /\ (pc = "redirect" /\ pc' = "idle") =>
              /\ nreq' = nreq
              /\ ret'.err = "nil" => (ret'.found /\ ret'.id = req.id)
      ]_vars

C16_Witness ==
    /\ pc = "idle" /\ op.name = "Open" /\ ret.err = "nil"
    /\ lastOut.out.status = 302
    /\ ret.found /\ ret.id = "https://cdn/signed"
    /\ nreq = 2

----------------------------------------------------------------------------
(* Rmdir of a directory that holds entries (C17) *)

\* C17: Rmdir(dir) returns an error and sends no delete request when dir
\* still holds an entry: a delete request of Rmdir only ever names a folder
\* the server holds nothing in, and a Rmdir that returns success has sent none
\* for a folder that holds something.
C17_Claim ==
    /\ (op.name = "Rmdir" /\ pc = "delete") => Children(Itoa(req.num)) = {}
    /\ (op.name = "Rmdir" /\ pc = "idle" /\ ret.err = "nil") => nreq = 0

----------------------------------------------------------------------------
(* Lookups after a miss (C20) *)

\* NewObject starts in this step, right after the same lookup returned
\* ErrorObjectNotFound
LookupAgain ==
    /\ pc = "idle" /\ op.name = "NewObject" /\ ret.err = "ErrorObjectNotFound"
    /\ pc' # "idle" /\ op'.name = "NewObject" /\ op'.path = op.path

\* C20: a failed lookup is not remembered.  A lookup that returns not-found
\* puts nothing into the path cache; the next lookup of the same path sends a
\* listing request again (for the parent when it is cached, else for the
\* first folder on the way to it), and when the server now lists the file the
\* lookup returns it.
C20_MissNotRemembered ==
    [][ /\ (pc # "idle" /\ pc' = "idle" /\ op'.name = "NewObject"
              /\ ret'.err = "ErrorObjectNotFound") =>
              /\ dirCache' = dirCache
              /\ op'.path \notin DOMAIN dirCache'
        /\ LookupAgain =>
              /\ op'.phase = "again"
              /\ pc' = "list" /\ nreq' = 1 /\ req'.kind = "list"
              /\ IF SplitDir(op.path) \in DOMAIN dirCache
                 THEN lst'.fn = "readmeta" /\ req'.id = dirCache[SplitDir(op.path)]
                 ELSE lst'.fn = "findleaf" /\ req'.id = dirCache[lst'.dir]
        /\ (pc = "list" /\ op.name = "NewObject" /\ op.phase = "again" /\ pc' = "idle"
              /\ lst'.fn = "readmeta" /\ lastOut'.err = "nil"
              /\ \E i \in lst'.seen : ~IsFolder(i) /\ i.Name = SplitLeaf(op.path)) =>
              ret'.found /\ ret'.err = "nil"
      ]_vars

C20_Witness ==
    /\ pc = "idle" /\ op.name = "NewObject" /\ op.phase = "again"
    /\ op.path = <<"a", "f">>
    /\ ret.found /\ o.id = "3"
    /\ nreq >= 1

----------------------------------------------------------------------------
(* Uploads by either strategy (C18, C19) *)

\* An upload returned success: Put or Update through POST /uploads, or the
\* pre-signed upload
UploadReturned ==
    /\ pc = "idle" /\ ret.err = "nil"
    /\ op.name \in {"Put", "Update", "upload"}

\* C18: a response whose body cannot be decoded as JSON, such as an HTML page
\* sent with status 200, is classified as transient and retried; it is never
\* returned to the caller as success.  Hence an upload that returns success
\* after POST /s3/entries got a body that did decode.
C18_Claim ==
    (UploadReturned /\ op.name = "upload") => lastOut.out.body = "{json}"

\* C19: after an upload that returns success the handle is populated in the
\* same way whichever strategy ran: the identifier is set and the
\* metadata-fetched flag is true.
C19_Claim ==
    UploadReturned => (o.hasMetaData /\ o.id # "")

----------------------------------------------------------------------------
(* Mkdir of a directory that exists (C21) *)

\* Mkdir(dir) starts in this step
MkdirStart == pc = "idle" /\ op'.name = "Mkdir" /\ (pc' # "idle" \/ ret'.op = "Mkdir")

\* The findleaf listing that just ended showed a folder of the wanted name
LeafListed == \E i \in lst'.seen : IsFolder(i) /\ EqualFold(i.Name, lst'.leaf)

\* Mkdir on an existing directory sends no POST /folders and returns nil
MkdirExisting ==
    /\ (MkdirStart /\ op'.path \in DOMAIN dirCache) =>
          (pc' = "idle" /\ ret'.err = "nil" /\ nreq' = 0 /\ dirCache' = dirCache)
    /\ (op.name = "Mkdir" /\ pc = "list" /\ pc' = "mkdir") => ~LeafListed

CallbackTrue(l, i) ==
    /\ ~Skipped(l, i)
    /\ Callback(l, [i EXCEPT !.Name = ToStandardName(@)], NoAcc(dirCache, l.entries)).found

\* Index of the first entry of data the callback returns true for, 0 if none
FirstTrue(l, data) ==
    IF \E k \in 1..Len(data) : CallbackTrue(l, data[k])
    THEN CHOOSE k \in 1..Len(data) :
            /\ CallbackTrue(l, data[k])
            /\ \A j \in 1..(k - 1) : ~CallbackTrue(l, data[j])
    ELSE 0

\* Whatever page answers the listing in progress, the walk over it reports
\* found exactly when the callback returns true for some entry, and ends as
\* the walk over the entries up to the first such entry ends
WalkStops ==
    \A data \in PageData(req.id, MaxEntries - lst.count) :
       LET acc == WalkPage(lst, data, 1, NoAcc(dirCache, lst.entries))
           m   == FirstTrue(lst, data)
       IN  /\ acc.found <=> (m # 0)
           /\ m # 0 => acc = WalkPage(lst, SubSeq(data, 1, m), 1, NoAcc(dirCache, lst.entries))

\* listAll requests one more page of the same listing
FurtherPage ==
    /\ pc = "list" /\ pc' = "list"
    /\ lst'.fn = lst.fn /\ lst'.npages = lst.npages + 1

\* readMetaDataForPath's listAll returned after a page
ReadMetaListed ==
    /\ pc = "list" /\ lst.fn = "readmeta"
    /\ pc' = "idle" /\ lst'.fn = "readmeta" /\ lst'.npages = lst.npages + 1

\* C26: when the callback passed to listAll returns true for an entry,
\* listAll returns found = true, calls the callback for no later entry and
\* requests no further page; when the callback never returns true, found is
\* false.
C26_FirstTrueStops ==
    /\ [](pc = "list" => WalkStops)
    /\ [][ /\ FurtherPage =>
                 /\ FirstTrue(lst, SubSeq(lst'.served, Len(lst.served) + 1, Len(lst'.served))) = 0
                 /\ lst'.lastNext # NoPage /\ req'.num = lst'.lastNext
                 /\ nreq' = nreq + 1
           /\ ReadMetaListed =>
                 /\ nreq' = nreq
                 /\ IF FirstTrue(lst, lst'.served) = 0
                    THEN /\ ~ret'.found /\ ret'.err = "ErrorObjectNotFound"
                         /\ lst'.lastNext = NoPage
                    ELSE /\ ret'.found
                         /\ FirstTrue(lst, lst'.served) > Len(lst.served)
                         /\ o'.id = GetID(lst'.served[FirstTrue(lst, lst'.served)]) ]_vars

\* A lookup found its file in a page after which the server offered another
\* page, with a further entry behind the file
C26_Witness ==
    /\ pc = "idle" /\ op.name = "NewObject" /\ ret.found
    /\ lst.fn = "readmeta" /\ lst.lastNext # NoPage
    /\ \E k \in 1..(Len(lst.served) - 1) : lst.served[k] = FileF

(* ---------------------------------------------------------------- C27 *)

\* Rmdir("") is called in this step
RmdirRoot ==
    /\ pc = "idle" /\ op'.name = "Rmdir" /\ op'.path = <<>>
    /\ (pc' # "idle" \/ ret'.op = "Rmdir")

\* C27: Rmdir("") on an Fs whose root is the empty path returns the "can't
\* purge root directory" error, sends no request and leaves the path cache
\* unchanged.
C27_RmdirRoot ==
    [][ (Root = <<>> /\ RmdirRoot) =>
           /\ pc' = "idle" /\ ret'.op = "Rmdir"
           /\ ret'.err = "can't purge root directory"
           /\ nreq' = 0 /\ req' = NoReq
           /\ dirCache' = dirCache ]_vars

\* Rmdir("") returned while the cache held a directory besides the root
C27_Witness ==
    /\ pc = "idle" /\ op.name = "Rmdir" /\ op.path = <<>>
    /\ ret.op = "Rmdir" /\ ret.err = "can't purge root directory"
    /\ nreq = 0 /\ <<"a">> \in DOMAIN dirCache

(* ---------------------------------------------------------------- C24 *)

\* What the server holds at a path below its top folder
RECURSIVE FolderIDs(_)
FolderIDs(path) ==
    IF path = <<>> THEN {RootID}
    ELSE { GetID(i) : i \in { j \in UNION { Children(d) : d \in FolderIDs(SplitDir(path)) } :
                                 IsFolder(j) /\ EqualFold(j.Name, SplitLeaf(path)) } }

FileAt(path) ==
    /\ path # <<>>
    /\ \E d \in FolderIDs(SplitDir(path)) :
          \E i \in Children(d) : ~IsFolder(i) /\ i.Name = SplitLeaf(path)

NamesNothing(path) == FolderIDs(path) = {} /\ ~FileAt(path)

NewFsDone == pc = "idle" /\ op.name = "NewFs" /\ ret.op = "NewFs"

\* The root did not resolve as a directory, its parent did, and the listing
\* of the parent held a file named by the leaf
RootIsFile ==
    /\ op.phase = "file"
    /\ \E k \in 1..Len(lst.served) :
          /\ ~IsFolder(lst.served[k])
          /\ ToStandardName(lst.served[k].Name) = SplitLeaf(op.path)

NewFsIsFile ==
    NewFsDone =>
       /\ (ret.err = "ErrorIsFile") <=> RootIsFile
       /\ ret.err = "ErrorIsFile" =>
             /\ ret.root = SplitDir(op.path)
             /\ ret.id \in FolderIDs(ret.root)
             /\ dirCache = (<<>> :> ret.id)

\* The claim as stated: a root that names nothing always gives the Fs with
\* the original root and a nil error
C24_Original ==
    /\ NewFsIsFile
    /\ (NewFsDone /\ NamesNothing(op.path)) => (ret.err = "nil" /\ ret.root = op.path)

\* C24 (amended): NewFs returns ErrorIsFile, with the Fs re-rooted at the
\* parent directory, if and only if the root path does not resolve as a
\* directory, its parent does, and the parent's listing contains a file named
\* by the leaf; when the root path names nothing that exists it returns the Fs
\* with the original root and a nil error, unless the listing of the parent
\* for the leaf fails: then it returns that error.
C24_NewFsIsFile ==
    /\ NewFsIsFile
    /\ (NewFsDone /\ NamesNothing(op.path)) =>
          \/ ret.err = "nil" /\ ret.root = op.path
          \/ /\ op.phase = "file" /\ lst = NoLst
             /\ ret.err \notin {"nil", "ErrorIsFile"} /\ lastOut.err = ret.err

\* NewFs("a/f") returned ErrorIsFile with the Fs rooted at a
C24_Witness ==
    /\ NewFsDone /\ op.path = <<"a", "f">>
    /\ ret.err = "ErrorIsFile" /\ ret.root = <<"a">>
    /\ nreq >= 3

(* ---------------------------------------------------------------- C23 *)

\* Size() or ModTime() is called on the handle in this step
AccessorCalled ==
    /\ pc = "idle" /\ o.exists
    /\ op'.name \in {"Size", "ModTime"}
    /\ (pc' # "idle" \/ ret'.op = op'.name)

\* Size() returns in this step after its metadata fetch failed
SizeFetchFailed ==
    /\ op'.name = "Size" /\ pc' = "idle" /\ ret'.op = "Size"
    /\ ~o'.hasMetaData

\* C23: Size() and ModTime() on a file handle whose metadata has not been
\* fetched trigger one metadata fetch on first access; once the metadata flag
\* is set, later Size()/ModTime() calls issue no network call; Size() returns
\* -1 when the fetch fails.
C23_Claim ==
    [][ /\ (AccessorCalled /\ ~o.hasMetaData) => (pc' = "list" /\ nreq' = 1)
        /\ (AccessorCalled /\ o.hasMetaData) => (pc' = "idle" /\ nreq' = 0)
        /\ SizeFetchFailed => ret'.size = -1 ]_vars

(* ---------------------------------------------------------------- C25 *)

\* SetModTime is called on the handle in this step
SetModTimeCalled ==
    /\ pc = "idle" /\ o.exists
    /\ op'.name = "SetModTime"
    /\ (pc' # "idle" \/ ret'.op = "SetModTime")

\* C25: SetModTime on any object returns the not-implemented error to the
\* caller, leaves the object's fields unchanged and sends no request; it
\* never panics.
C25_Claim ==
    [][ SetModTimeCalled =>
           /\ pc' = "idle" /\ ret'.err = "ErrorNotImplemented"
           /\ o' = o
           /\ nreq' = 0 /\ req' = NoReq ]_vars

(* ---------------------------------------------------------------- C28 *)

\* C28: when the upload request is retried by the pacer after a retryable
\* failure, every attempt sends the same complete multipart body (file
\* content and parentId) as the first attempt; no retry sends an empty or
\* truncated body.
C28_Claim == pc = "upload" => req.body = "complete"

(* ---------------------------------------------------------------- C29 *)

HandleFields(ob) == <<ob.id, ob.size, ob.modTime, ob.mimeType, ob.hasMetaData>>

\* A step of Object.upload, or of the Object.Update that calls it, other
\* than a return without error
UploadNotDone ==
    /\ pc = "upload" \/ (pc # "idle" /\ op.name = "Update")
    /\ ~(pc' = "idle" /\ ret'.err = "nil")

\* C29: when an upload fails (transport error after retries, or a response
\* whose status is not "success"), the file handle's identifier, size,
\* modification time, content type and metadata flag are left exactly as they
\* were before the call.
C29_FailedUpload ==
    [][ UploadNotDone => HandleFields(o') = HandleFields(o) ]_vars

\* Update of a handle with metadata returned "upload failed" on a response
\* whose status is not "success", and the handle still has its metadata
C29_Witness ==
    /\ pc = "idle" /\ op.name = "Update" /\ ret.err = "upload failed"
    /\ o.hasMetaData /\ o.id # "" /\ nreq >= 1

(* ---------------------------------------------------------------- C30 *)

\* C30: CreateDir returns an identifier with a nil error only when the server
\* response reports a created folder: when the response status is not
\* "success" or carries no folder id, CreateDir returns an error, so the
\* identifier "0" is never returned as a new directory's id and never stored
\* in the path cache for it.
C30_Claim ==
    /\ \A p \in DOMAIN dirCache : dirCache[p] # "0"
    /\ (pc = "idle" /\ ret.op = "Mkdir" /\ ret.err = "nil") => ret.id # "0"

(* ---------------------------------------------------------------- C22 *)

\* Entry e of a List(path) call is an entry the server holds in the
\* directory at path
OwnEntry(e, path) ==
    \E d \in FolderIDs(path) : \E i \in Children(d) : Delivers(e, path, i)

\* C22: when adapter operations run concurrently on one Fs (two List calls
\* on different directories, or List interleaved with Rmdir), the path cache
\* is never corrupted: each List returns exactly the entries of its own
\* directory, one for each entry the server sent it, and every cache entry
\* written maps a path to the identifier the server reported for that path.
C22_NoCorruption ==
    /\ \A p \in DOMAIN dirCache : dirCache[p] \in FolderIDs(p)
    /\ \A g \in Goroutines :
          (gor[g].name = "List" /\ gor[g].lst.fn = "list") =>
             /\ gor[g].id \in FolderIDs(gor[g].path)
             /\ Len(gor[g].lst.entries) = gor[g].lst.count
             /\ \A k \in 1..Len(gor[g].lst.entries) :
                   OwnEntry(gor[g].lst.entries[k], gor[g].path)
             /\ (gor[g].pc = "idle" /\ gor[g].err = "nil") =>
                   gor[g].entries = gor[g].lst.entries

\* List("a") returned the folder a/a and cached it after the Rmdir("a") of
\* the other goroutine flushed a from the cache, which the listing had
\* resolved a with
C22_Witness ==
    /\ gor[1].pc = "idle" /\ gor[1].name = "Rmdir" /\ gor[1].path = <<"a">>
    /\ gor[1].err = "nil"
    /\ gor[2].pc = "idle" /\ gor[2].name = "List" /\ gor[2].path = <<"a">>
    /\ gor[2].err = "nil" /\ Len(gor[2].entries) = 1
    /\ <<"a">> \notin DOMAIN dirCache
    /\ <<"a", "a">> \in DOMAIN dirCache

====
